---- MODULE Spec2Model ----
(***************************************************************************)
(* Model of drone-core's heap: the memory pools (src/src/heap/pool.rs) and *)
(* the pool dispatcher (src/src/heap/allocator.rs).                        *)
(*                                                                         *)
(* A heap is the array of pools behind Allocator::get_pool_unchecked,      *)
(* modelled as a function from the indices 0..N-1 to Pool records.  An     *)
(* address is a natural number, the null pointer is 0.                     *)
(***************************************************************************)
EXTENDS Integers, Sequences, FiniteSets, TLC

VARIABLES
    pools,      \* the heap: [0..N-1 -> Pool], the fields of struct Pool
    origin,     \* origin[i]: the `address` pools[i] was constructed with
    mem,        \* mem[a]: the bytes of the first machine word of the block at a
    pc,         \* pc[c]: the place of context c inside its current call
    op,         \* op[c]: the call context c is running
    layout,     \* layout[c]: the size of the Layout argument of the call
    pool_idx,   \* pool_idx[c]: the pool the call is working on
    ptr,        \* ptr[c]: the `ptr` argument of deallocate
    curr,       \* curr[c]: the local `curr` of the retry loops
    next,       \* next[c]: the local `next` of the retry loops
    result,     \* result[c]: what the call returns
    held,       \* held[a]: how many callers hold the address a
    issuer,     \* issuer[a][i]: how many of them had a from pool i
    stack,      \* stack[i]: blocks of pool i freed and not taken again, last freed first
    ever_freed, \* ever_freed[i]: Pool::deallocate has been called on pool i
    search,     \* the frame of a stand-alone binary_search call
    rest,       \* rest[a]: the bytes of the block at a after its first word
    port,       \* the trace port: TRACE_PORT, is_enabled(), the key, the words written
    call,       \* call[c]: the frame of the grow, shrink or zeroed call of context c
    calls       \* how many dispatcher calls the run of SpecDispatch has made

vars == <<pools, origin, mem, pc, op, layout, pool_idx, ptr, curr, next,
          result, held, issuer, stack, ever_freed, search, rest, port, call,
          calls>>

heapVars == <<mem, pc, op, layout, pool_idx, ptr, curr, next, result, held, issuer,
             stack, ever_freed, rest, port, call, calls>>

(***************************************************************************)
(* Bounds of the model.                                                    *)
(***************************************************************************)
MaxN == 3               \* longest pool array drawn for binary_search
MaxBlockSize == 4       \* largest block size drawn for binary_search
MaxCapacity == 2        \* largest capacity drawn for binary_search
MaxFixtureProbe == 32400 \* largest address probed in the test fixture
MaxHolders == 2         \* callers stop allocating once an address has this many holders
MaxCalls == 3           \* dispatcher calls in a run of SpecDispatch
MaxPoolCalls == 7       \* pool calls in a run of Spec

NULL == 0

(***************************************************************************)
(* usize.  The code is built for a 64-bit target.  The one usize the code  *)
(* lets wrap, the remain counter (fetch_sub and fetch_add wrap), is kept   *)
(* at its full width as its four 16-bit limbs, least significant first;    *)
(* sizes and addresses stay far below the width and are plain naturals.    *)
(***************************************************************************)
\* usize::BITS / 16
UsizeLimbs == 4

LimbModulus == 65536

RECURSIVE Limbs(_, _)
Limbs(n, k) ==
    IF k = 0 THEN << >>
    ELSE <<n % LimbModulus>> \o Limbs(n \div LimbModulus, k - 1)

\* The usize of the natural n.
as_usize(n) == Limbs(n, UsizeLimbs)

\* a.wrapping_sub(b), for b <= LimbModulus: the borrow runs up the limbs and
\* falls off the top.
RECURSIVE wrapping_sub(_, _)
wrapping_sub(a, b) ==
    IF a = << >> THEN << >>
    ELSE <<(Head(a) - b + LimbModulus) % LimbModulus>>
         \o wrapping_sub(Tail(a), IF Head(a) < b THEN 1 ELSE 0)

\* a.wrapping_add(b): the carry runs up the limbs and falls off the top.
RECURSIVE wrapping_add(_, _)
wrapping_add(a, b) ==
    IF a = << >> THEN << >>
    ELSE <<(Head(a) + b) % LimbModulus>>
         \o wrapping_add(Tail(a), (Head(a) + b) \div LimbModulus)

(***************************************************************************)
(* struct Pool and Pool::new.                                              *)
(***************************************************************************)
PoolNew(address, block_size, capacity) ==
    [ capacity   |-> capacity,
      remain     |-> as_usize(capacity),
      block_size |-> block_size,
      edge       |-> address + block_size * capacity,
      free       |-> NULL,
      uninit     |-> address ]

\* The const parameter N of Allocator<N>.
N(heap) == Cardinality(DOMAIN heap)

\* heap.get_pool_unchecked(index)
get_pool_unchecked(heap, index) == heap[index]

(***************************************************************************)
(* trait Fits: a probe is a Layout (its size) or a NonNull<u8> (an         *)
(* address).                                                               *)
(***************************************************************************)
LayoutProbe(size) == [kind |-> "layout", v |-> size]
PtrProbe(p) == [kind |-> "ptr", v |-> p]

\* impl Fits for &Layout
MutFitsLayout(size, pool) == size < pool.block_size

FitsLayout(size, pool) == size <= pool.block_size

\* impl Fits for NonNull<u8>
MutFitsPtr(p, pool) == p <= pool.edge

FitsPtr(p, pool) == p < pool.edge

Fits(value, pool) ==
    IF value.kind = "layout" THEN FitsLayout(value.v, pool)
                             ELSE FitsPtr(value.v, pool)

(***************************************************************************)
(* binary_search: `middle`, one turn of the while loop, and the loop.      *)
(***************************************************************************)
Middle(left, right) == left + ((right - left) \div 2)

\* while right > left
MutLoopCondition(left, right) == right > left + 1

LoopCondition(left, right) == right > left

\* One turn of the loop body: the new <<left, right>>.
MutBinarySearchTurn(heap, value, left, right) ==
    LET middle == Middle(left, right)
        pool == get_pool_unchecked(heap, middle)
    IN  IF Fits(value, pool) THEN <<middle + 1, right>>
                             ELSE <<left, middle>>

BinarySearchTurn(heap, value, left, right) ==
    LET middle == Middle(left, right)
        pool == get_pool_unchecked(heap, middle)
    IN  IF Fits(value, pool) THEN <<left, middle>>
                             ELSE <<middle + 1, right>>

RECURSIVE BinarySearchLoop(_, _, _, _)
BinarySearchLoop(heap, value, left, right) ==
    IF LoopCondition(left, right)
    THEN LET lr == BinarySearchTurn(heap, value, left, right)
         IN  BinarySearchLoop(heap, value, lr[1], lr[2])
    ELSE left

binary_search(heap, value) == BinarySearchLoop(heap, value, 0, N(heap))

(***************************************************************************)
(* Pool arrays for the stand-alone binary_search calls.  A shape is the    *)
(* gap before a pool, its block size and its capacity; the pools are laid  *)
(* out in ascending address order from StartAddress.                       *)
(***************************************************************************)
StartAddress == 1

RECURSIVE EdgeBefore(_, _)
EdgeBefore(shapes, i) ==
    IF i = 0 THEN StartAddress
    ELSE EdgeBefore(shapes, i - 1)
         + shapes[i].gap + shapes[i].block_size * shapes[i].capacity

MakeHeap(shapes) ==
    [i \in 0..(Len(shapes) - 1) |->
        PoolNew(EdgeBefore(shapes, i) + shapes[i + 1].gap,
                shapes[i + 1].block_size, shapes[i + 1].capacity)]

MakeOrigin(shapes) ==
    [i \in 0..(Len(shapes) - 1) |-> EdgeBefore(shapes, i) + shapes[i + 1].gap]

SeqsUpTo(S, n) == UNION {[1..k -> S] : k \in 0..n}

\* Arrays for the size probe: every block size and capacity, no gaps.
SizeShapes == [gap : {0}, block_size : 1..MaxBlockSize, capacity : 0..MaxCapacity]

\* Arrays for the address probe: the extreme block sizes and capacities,
\* with and without a gap before the pool.
AddrShapes == [gap : {0, 1}, block_size : {1, MaxBlockSize}, capacity : {0, MaxCapacity}]

\* "sorted ascending by block_size"
SizeSorted(heap) ==
    \A i, j \in DOMAIN heap : i < j => heap[i].block_size <= heap[j].block_size

\* "address ranges ascending and non-overlapping in array order"
AddrOrdered(heap, org) ==
    /\ \A i \in DOMAIN heap : org[i] <= heap[i].edge
    /\ \A i, j \in DOMAIN heap : i < j => heap[i].edge <= org[j]

LastEdge(heap) ==
    IF N(heap) = 0 THEN StartAddress ELSE heap[N(heap) - 1].edge

(***************************************************************************)
(* The test fixture of tests::test_binary_search.                          *)
(***************************************************************************)
FixturePools ==
    << <<20, 2, 100>>, <<220, 5, 100>>, <<720, 8, 100>>, <<1520, 12, 100>>,
       <<2720, 16, 100>>, <<4320, 23, 100>>, <<6620, 38, 100>>,
       <<10420, 56, 100>>, <<16020, 72, 100>>, <<23220, 91, 100>> >>

FixtureHeap ==
    [i \in 0..(Len(FixturePools) - 1) |->
        PoolNew(FixturePools[i + 1][1], FixturePools[i + 1][2], FixturePools[i + 1][3])]

FixtureOrigin ==
    [i \in 0..(Len(FixturePools) - 1) |-> FixturePools[i + 1][1]]

FixtureSizes == 0..93

FixtureAddrs == 1..MaxFixtureProbe

(***************************************************************************)
(* A stand-alone call of binary_search, one loop turn per step.            *)
(***************************************************************************)
NoSearch == [pc |-> "none", value |-> LayoutProbe(0), left |-> 0, right |-> 0]

NoHeapState ==
    /\ mem = << >>
    /\ pc = << >> /\ op = << >> /\ layout = << >> /\ pool_idx = << >>
    /\ ptr = << >> /\ curr = << >> /\ next = << >> /\ result = << >>
    /\ held = << >>
    /\ issuer = << >>
    /\ stack = << >>
    /\ ever_freed = << >>
    /\ rest = << >>
    /\ port = << >>
    /\ call = << >>
    /\ calls = 0

SearchFrame(value) == [pc |-> "call", value |-> value, left |-> 0, right |-> 0]

InitSize ==
    /\ \E shapes \in SeqsUpTo(SizeShapes, MaxN) :
          /\ SizeSorted(MakeHeap(shapes))
          /\ pools = MakeHeap(shapes)
          /\ origin = MakeOrigin(shapes)
    /\ \E size \in 0..(MaxBlockSize + 1) : search = SearchFrame(LayoutProbe(size))
    /\ NoHeapState

InitAddr ==
    /\ \E shapes \in SeqsUpTo(AddrShapes, MaxN) :
          /\ pools = MakeHeap(shapes)
          /\ origin = MakeOrigin(shapes)
    /\ \E p \in 1..(LastEdge(pools) + 1) : search = SearchFrame(PtrProbe(p))
    /\ NoHeapState

InitFixture ==
    /\ pools = FixtureHeap
    /\ origin = FixtureOrigin
    /\ \E value \in {LayoutProbe(s) : s \in FixtureSizes}
                    \cup {PtrProbe(p) : p \in FixtureAddrs} :
          search = SearchFrame(value)
    /\ NoHeapState

\* let (mut left, mut right) = (0, N);
BinarySearchCall ==
    /\ search.pc = "call"
    /\ search' = [search EXCEPT !.pc = "loop", !.left = 0, !.right = N(pools)]
    /\ UNCHANGED <<pools, origin, heapVars>>

\* while right > left { ... }
BinarySearchStep ==
    /\ search.pc = "loop"
    /\ LoopCondition(search.left, search.right)
    /\ LET lr == BinarySearchTurn(pools, search.value, search.left, search.right)
       IN  search' = [search EXCEPT !.left = lr[1], !.right = lr[2]]
    /\ UNCHANGED <<pools, origin, heapVars>>

\* the loop exit: `left` is returned
BinarySearchReturn ==
    /\ search.pc = "loop"
    /\ ~LoopCondition(search.left, search.right)
    /\ search' = [search EXCEPT !.pc = "done"]
    /\ UNCHANGED <<pools, origin, heapVars>>

NextSearch == BinarySearchCall \/ BinarySearchStep \/ BinarySearchReturn

SpecSize == InitSize /\ [][NextSearch]_vars

SpecAddr == InitAddr /\ [][NextSearch]_vars

SpecFixture == InitFixture /\ [][NextSearch]_vars

(***************************************************************************)
(* The heap under calls.  Contexts (threads, interrupt handlers) call the  *)
(* dispatcher's allocate and deallocate and the pools' own allocate and    *)
(* deallocate; a step of a context is one access to shared memory.         *)
(***************************************************************************)
Contexts == {1, 2}

\* A heap configuration: <<address, block_size, capacity>> per pool.  The
\* blocks of the heaps under calls hold at least one machine word, so that
\* the link Pool::deallocate writes stays inside the block.
HeapOf(cfg) ==
    [i \in 0..(Len(cfg) - 1) |-> PoolNew(cfg[i + 1][1], cfg[i + 1][2], cfg[i + 1][3])]

OriginOf(cfg) == [i \in 0..(Len(cfg) - 1) |-> cfg[i + 1][1]]

\* The heap the contexts share in Spec.
SharedConfigs == { << <<8, 8, 2>>, <<24, 16, 1>> >> }

\* The heaps of the single-context runs: contiguous, with a gap, and with a
\* pool of capacity 0.
SingleConfigs ==
    { << <<8, 8, 2>>, <<24, 16, 1>> >>,
      << <<8, 8, 1>>, <<16, 16, 2>>, <<64, 32, 1>> >>,
      << <<8, 8, 3>> >>,
      << <<8, 8, 1>>, <<16, 16, 0>>, <<16, 32, 1>> >> }

Layout(size, align) == [size |-> size, align |-> align]

\* Layouts the dispatcher is called with.
Layouts == {Layout(size, align) : size \in {0, 8, 9, 17, 33}, align \in {1, 4}}

\* Words a holder stores into the first word of its block: null, the
\* address of a block (of pool 1 in the shared heap) and an address outside
\* every heap.
UserWords == {NULL, 24, 4096}

\* The block addresses of pool i, and of the heap.
BlocksOf(i) ==
    {origin[i] + k * pools[i].block_size : k \in 0..(pools[i].capacity - 1)}

AllBlocks == UNION {BlocksOf(i) : i \in DOMAIN pools}

\* layout.dangling()
dangling(lay) == lay.align

NoLayout == [size |-> 0, align |-> 1]

NoResult == [kind |-> "none", ptr |-> NULL, len |-> 0]

\* Ok(NonNull::slice_from_raw_parts(p, len))
Ok(p, len) == [kind |-> "Ok", ptr |-> p, len |-> len]

Err == [kind |-> "Err", ptr |-> NULL, len |-> 0]

Some(p) == [kind |-> "Some", ptr |-> p, len |-> 0]

None == [kind |-> "None", ptr |-> NULL, len |-> 0]

Unit == [kind |-> "unit", ptr |-> NULL, len |-> 0]

(***************************************************************************)
(* Block memory as bytes.  A block is its first machine word, which        *)
(* Pool::deallocate uses as the free-list link, followed by the rest of    *)
(* its bytes.  A pointer is stored least significant byte first; the       *)
(* addresses of the model are below 2^16, so the upper bytes of a stored   *)
(* pointer are zero.                                                       *)
(***************************************************************************)
\* size_of::<*mut u8>() on the 64-bit target
WordSize == 8

RECURSIVE BytesOf(_, _)
BytesOf(w, n) ==
    IF n = 0 THEN << >> ELSE <<w % 256>> \o BytesOf(w \div 256, n - 1)

\* The bytes ptr::write stores for the pointer w.
WordBytes(w) == BytesOf(w, WordSize)

\* The pointer ptr::read makes of the bytes b.
RECURSIVE BytesWord(_)
BytesWord(b) == IF b = << >> THEN 0 ELSE Head(b) + 256 * BytesWord(Tail(b))

Zeros(n) == [k \in 1..n |-> 0]

\* The pool that owns the block at a.
PoolOf(a) == CHOOSE i \in DOMAIN pools : a \in BlocksOf(i)

\* The bytes of the block at a, in address order.
BlockBytes(a) == mem[a] \o rest[a]

\* ptr::read(a as *const *mut u8): the pointer in the first word of the
\* block at a.
read(a) == BytesWord(mem[a])

\* ptr::copy_nonoverlapping(src, dst, count): the bytes of the block at dst
\* afterwards.
MutCopyCount(count) == IF count > WordSize THEN count - 1 ELSE count

CopyCount(count) == count

copy_nonoverlapping(src, dst, count) ==
    [k \in 1..Len(BlockBytes(dst)) |->
        IF k <= CopyCount(count) THEN BlockBytes(src)[k] ELSE BlockBytes(dst)[k]]

\* ptr.write_bytes(0, count): the bytes of the block at dst afterwards.
write_bytes(dst, count) ==
    [k \in 1..Len(BlockBytes(dst)) |-> IF k <= count THEN 0 ELSE BlockBytes(dst)[k]]

\* Block memory with the bytes b stored in the block at a.
MemWith(a, b) == [mem EXCEPT ![a] = SubSeq(b, 1, WordSize)]

RestWith(a, b) == [rest EXCEPT ![a] = SubSeq(b, WordSize + 1, Len(b))]

(***************************************************************************)
(* The trace boundary: mod trace.  A u32 is kept as its two 16-bit halves. *)
(***************************************************************************)
HalfModulus == 65536

\* `as u32`
as_u32(n) == [hi |-> (n \div HalfModulus) % HalfModulus, lo |-> n % HalfModulus]

RECURSIVE BitOr(_, _, _)
BitOr(a, b, bits) ==
    IF bits = 0 THEN 0
    ELSE (IF a % 2 = 1 \/ b % 2 = 1 THEN 1 ELSE 0)
         + 2 * BitOr(a \div 2, b \div 2, bits - 1)

RECURSIVE BitXor(_, _, _)
BitXor(a, b, bits) ==
    IF bits = 0 THEN 0
    ELSE ((a + b) % 2) + 2 * BitXor(a \div 2, b \div 2, bits - 1)

\* x | y
Or32(x, y) == [hi |-> BitOr(x.hi, y.hi, 16), lo |-> BitOr(x.lo, y.lo, 16)]

\* x ^ y
Xor32(x, y) == [hi |-> BitXor(x.hi, y.hi, 16), lo |-> BitXor(x.lo, y.lo, 16)]

\* x << 24, x << 16, x >> 24, x >> 16
Shl24(x) == [hi |-> (x.lo % 256) * 256, lo |-> 0]

Shl16(x) == [hi |-> x.lo, lo |-> 0]

Shr24(x) == [hi |-> 0, lo |-> x.hi \div 256]

Shr16(x) == [hi |-> 0, lo |-> x.hi]

\* x & 0xFF, x & 0xFFFF
AndFF(x) == [hi |-> 0, lo |-> x.lo % 256]

AndFFFF(x) == [hi |-> 0, lo |-> x.lo]

\* The two words of trace::allocate (opcode 0xA1) and trace::deallocate
\* (opcode 0xD1), before the key.
MutPair(opcode, size) ==
    << Or32(Shl24(as_u32(opcode)), Shr24(as_u32(size))),
       Or32(Shl24(as_u32(opcode + 1)), AndFFFF(as_u32(size))) >>

Pair(opcode, size) ==
    << Or32(Shl24(as_u32(opcode)), Shr24(as_u32(size))),
       Or32(Shl24(as_u32(opcode + 1)), AndFF(as_u32(size))) >>

\* The three words of trace::grow (opcode 0xB1) and trace::shrink (opcode
\* 0xC1), before the key.
Triple(opcode, old_size, new_size) ==
    << Or32(Shl24(as_u32(opcode)), Shr24(as_u32(old_size))),
       Or32(Or32(Shl24(as_u32(opcode + 1)), Shl16(AndFF(as_u32(old_size)))),
            Shr16(as_u32(new_size))),
       Or32(Shl24(as_u32(opcode + 2)), AndFFFF(as_u32(new_size))) >>

\* Every word ^ HEAPTRACE_KEY
Keyed(words, key) == [k \in 1..Len(words) |-> Xor32(words[k], key)]

\* The port of a heap whose TRACE_PORT is None.
NoPort == [trace_port |-> "None", enabled |-> FALSE, key |-> as_u32(0), words |-> << >>]

\* Port::new(trace_port).is_enabled()
is_enabled(p) == p.enabled

\* Port::write::<u32>(word): the port receives the word.
write(p, word) == [p EXCEPT !.words = Append(@, word)]

\* Port::new(trace_port).write(..).write(..)
RECURSIVE WriteAll(_, _)
WriteAll(p, words) ==
    IF words = << >> THEN p ELSE WriteAll(write(p, Head(words)), Tail(words))

\* if let Some(trace_port) = A::TRACE_PORT { if is_enabled() { trace(..) } }:
\* the port after the words are written.
Written(p, words) ==
    IF p.trace_port = "Some" /\ is_enabled(p)
    THEN WriteAll(p, Keyed(words, p.key))
    ELSE p

trace_allocate(p, lay) == Written(p, Pair(161, lay.size))

trace_deallocate(p, lay) == Written(p, Pair(209, lay.size))

trace_grow(p, old_layout, new_layout) ==
    Written(p, Triple(177, old_layout.size, new_layout.size))

trace_shrink(p, old_layout, new_layout) ==
    Written(p, Triple(193, old_layout.size, new_layout.size))

\* The port when a caller enters the dispatcher: `words` holds what the
\* port receives from there on.
Fresh(p) == [p EXCEPT !.words = << >>]

\* No grow, shrink or zeroed call in progress.
NoCall ==
    [kind |-> "none", stage |-> "none", ptr |-> NULL,
     old_layout |-> NoLayout, new_layout |-> NoLayout, new |-> NoResult,
     pool |-> 0, pools0 |-> << >>, bytes0 |-> << >>]

\* The heap after construction, with the memory at the addresses `outside`
\* next to it: the blocks hold zeros, the memory outside holds any word.
InitHeapIn(configs, ports, outside) ==
    /\ \E cfg \in configs :
          /\ pools = HeapOf(cfg)
          /\ origin = OriginOf(cfg)
    /\ \E w \in [outside \ AllBlocks -> UserWords] :
          mem = [a \in AllBlocks \cup outside |->
                    IF a \in AllBlocks THEN Zeros(WordSize) ELSE WordBytes(w[a])]
    /\ pc = [c \in Contexts |-> "idle"]
    /\ op = [c \in Contexts |-> "none"]
    /\ layout = [c \in Contexts |-> NoLayout]
    /\ pool_idx = [c \in Contexts |-> 0]
    /\ ptr = [c \in Contexts |-> NULL]
    /\ curr = [c \in Contexts |-> NULL]
    /\ next = [c \in Contexts |-> NULL]
    /\ result = [c \in Contexts |-> NoResult]
    /\ held = [a \in AllBlocks \cup outside |-> 0]
    /\ issuer = [a \in AllBlocks \cup outside |-> [i \in DOMAIN pools |-> 0]]
    /\ stack = [i \in DOMAIN pools |-> << >>]
    /\ ever_freed = [i \in DOMAIN pools |-> FALSE]
    /\ search = NoSearch
    /\ rest = [a \in AllBlocks \cup outside |->
                 IF a \in AllBlocks
                 THEN Zeros(pools[PoolOf(a)].block_size - WordSize) ELSE << >>]
    /\ port \in ports
    /\ call = [c \in Contexts |-> NoCall]
    /\ calls = 0

\* The heaps of the tests: TRACE_PORT is None.
InitHeap(configs) == InitHeapIn(configs, {NoPort}, {})

\* The shared heap, and the memory at the addresses its holders store: a
\* free head can come to point there, and then alloc_free reads that memory
\* and hands it out.
Init == InitHeapIn(SharedConfigs, {NoPort}, UserWords \ {NULL})

InitSingle == InitHeap(SingleConfigs)

\* A sequence without the element x.
Without(seq, x) == SelectSeq(seq, LAMBDA y : y /= x)

(***************************************************************************)
(* How Pool::allocate hands its Option back: to the caller of              *)
(* Pool::allocate, or to the for loop of the dispatcher's allocate, which  *)
(* returns Ok on Some and moves to the next pool on None.                  *)
(***************************************************************************)
\* for pool_idx in i..N { pool.allocate() ... } Err(AllocError)
ForLoop(c, i) ==
    IF i < N(pools)
    THEN /\ pool_idx' = [pool_idx EXCEPT ![c] = i]
         /\ pc' = [pc EXCEPT ![c] = "alloc_free_load"]
         /\ result' = result
    ELSE /\ pool_idx' = pool_idx
         /\ pc' = [pc EXCEPT ![c] = "done"]
         /\ result' = [result EXCEPT ![c] = Err]

PoolAllocateSome(c, p) ==
    /\ pool_idx' = pool_idx
    /\ pc' = [pc EXCEPT ![c] = "done"]
    /\ result' = [result EXCEPT ![c] =
          IF op[c] = "allocate"
          THEN Ok(p, get_pool_unchecked(pools, pool_idx[c]).block_size)
          ELSE Some(p)]

\* Without the upgrade: the first exhausted pool fails the allocation.
MutPoolAllocateNone(c) ==
    /\ pool_idx' = pool_idx
    /\ pc' = [pc EXCEPT ![c] = "done"]
    /\ result' = [result EXCEPT ![c] = IF op[c] = "allocate" THEN Err ELSE None]

PoolAllocateNone(c) ==
    IF op[c] = "allocate"
    THEN ForLoop(c, pool_idx[c] + 1)
    ELSE /\ pool_idx' = pool_idx
         /\ pc' = [pc EXCEPT ![c] = "done"]
         /\ result' = [result EXCEPT ![c] = None]

(***************************************************************************)
(* Entries of the calls.                                                   *)
(***************************************************************************)
\* layout.size() == 0
MutZeroSized(lay) == FALSE

ZeroSized(lay) == lay.size = 0

\* A caller takes no further block once an address has MaxHolders holders.
MayAllocate == \A a \in DOMAIN held : held[a] < MaxHolders

\* allocator::allocate, up to the first pool.allocate(): the trace event,
\* then the size test, then the search (AllocateEnter).
AllocateEnter(c, lay) ==
    /\ op' = [op EXCEPT ![c] = "allocate"]
    /\ layout' = [layout EXCEPT ![c] = lay]
    /\ IF ZeroSized(lay)
       THEN /\ result' = [result EXCEPT ![c] = Ok(dangling(lay), 0)]
            /\ pc' = [pc EXCEPT ![c] = "done"]
            /\ pool_idx' = pool_idx
       ELSE ForLoop(c, binary_search(pools, LayoutProbe(lay.size)))

\* if let Some(trace_port) = A::TRACE_PORT { trace::allocate(trace_port, layout) }
\* is the first statement of allocate.
MutAllocateTrace(p, lay) ==
    IF ZeroSized(lay) THEN Fresh(p) ELSE trace_allocate(Fresh(p), lay)

AllocateTrace(p, lay) == trace_allocate(Fresh(p), lay)

AllocateCall(c, lay) ==
    /\ pc[c] = "idle"
    /\ MayAllocate
    /\ port' = AllocateTrace(port, lay)
    /\ AllocateEnter(c, lay)
    /\ UNCHANGED <<pools, origin, mem, ptr, curr, next, held, issuer, stack, ever_freed, search, rest, call>>

\* Pool::allocate, called on pool i
PoolAllocateCall(c, i) ==
    /\ pc[c] = "idle"
    /\ MayAllocate
    /\ op' = [op EXCEPT ![c] = "Pool.allocate"]
    /\ pool_idx' = [pool_idx EXCEPT ![c] = i]
    /\ pc' = [pc EXCEPT ![c] = "alloc_free_load"]
    /\ UNCHANGED <<pools, origin, mem, layout, ptr, curr, next, result, held, issuer, stack, ever_freed, search, rest, port, call>>

\* allocator::deallocate, up to pool.deallocate(ptr): the trace event, then
\* the size test, then the search (DeallocateEnter).  The caller gives the
\* block up when the call reaches the pool; a zero-size layout returns at
\* once and the caller keeps what it held.
DeallocateEnter(c, p, lay) ==
    /\ op' = [op EXCEPT ![c] = "deallocate"]
    /\ layout' = [layout EXCEPT ![c] = lay]
    /\ ptr' = [ptr EXCEPT ![c] = p]
    /\ IF ZeroSized(lay)
       THEN /\ result' = [result EXCEPT ![c] = Unit]
            /\ pc' = [pc EXCEPT ![c] = "done"]
            /\ UNCHANGED <<pool_idx, held, issuer, ever_freed>>
       ELSE /\ pool_idx' = [pool_idx EXCEPT ![c] = binary_search(pools, PtrProbe(p))]
            /\ pc' = [pc EXCEPT ![c] = "dealloc_load"]
            /\ held' = [held EXCEPT ![p] = @ - 1]
            /\ \E k \in DOMAIN pools :
                  /\ issuer[p][k] > 0
                  /\ issuer' = [issuer EXCEPT ![p][k] = @ - 1]
            /\ ever_freed' = [ever_freed EXCEPT ![binary_search(pools, PtrProbe(p))] = TRUE]
            /\ result' = result

DeallocateCall(c, p, lay) ==
    /\ pc[c] = "idle"
    /\ \/ p \in DOMAIN held /\ held[p] > 0
       \/ lay.size = 0 /\ p = dangling(lay)
    /\ port' = trace_deallocate(Fresh(port), lay)
    /\ DeallocateEnter(c, p, lay)
    /\ UNCHANGED <<pools, origin, mem, curr, next, stack, search, rest, call>>

\* Pool::deallocate, called by a holder of p on the pool i it had p from
PoolDeallocateCall(c, i, p) ==
    /\ pc[c] = "idle"
    /\ held[p] > 0 /\ issuer[p][i] > 0
    /\ op' = [op EXCEPT ![c] = "Pool.deallocate"]
    /\ ptr' = [ptr EXCEPT ![c] = p]
    /\ pool_idx' = [pool_idx EXCEPT ![c] = i]
    /\ pc' = [pc EXCEPT ![c] = "dealloc_load"]
    /\ held' = [held EXCEPT ![p] = @ - 1]
    /\ issuer' = [issuer EXCEPT ![p][i] = @ - 1]
    /\ ever_freed' = [ever_freed EXCEPT ![i] = TRUE]
    /\ UNCHANGED <<pools, origin, mem, layout, curr, next, result, stack, search, rest, port, call>>

(***************************************************************************)
(* The pool of a call and the retry loops.                                 *)
(***************************************************************************)
\* &self in Pool::allocate and Pool::deallocate: the pool the call is on.
MutSelf(c) == 0

self(c) == pool_idx[c]

\* loop { .. }: when compare_exchange_weak fails the body starts again at its
\* load.
MutLoopTop(at) == at

LoopTop(at) ==
    CASE at = "alloc_free_cas" -> "alloc_free_load"
      [] at = "alloc_uninit_cas" -> "alloc_uninit_load"
      [] at = "dealloc_cas" -> "dealloc_load"

(***************************************************************************)
(* Pool::alloc_free                                                        *)
(***************************************************************************)
\* let curr = self.free.load(Acquire); if curr.is_null() { break None }
AllocFreeLoad(c) ==
    /\ pc[c] = "alloc_free_load"
    /\ LET v == pools[self(c)].free
       IN  /\ curr' = [curr EXCEPT ![c] = v]
           /\ pc' = [pc EXCEPT ![c] =
                 IF v = NULL THEN "alloc_uninit_load" ELSE "alloc_free_read"]
    /\ UNCHANGED <<pools, origin, mem, op, layout, pool_idx, ptr, next, result,
                   held, issuer, stack, ever_freed, search, rest, port, call, calls>>

\* What ptr::read(curr as *const *mut u8) gives: the word the memory at curr
\* holds, in a block of the heap or outside it.  Memory the model does not
\* keep holds zeros and no step writes it.
Loaded(a) == IF a \in DOMAIN mem THEN read(a) ELSE NULL

\* let next = ptr::read(curr as *const *mut u8)
AllocFreeRead(c) ==
    /\ pc[c] = "alloc_free_read"
    /\ next' = [next EXCEPT ![c] = Loaded(curr[c])]
    /\ pc' = [pc EXCEPT ![c] = "alloc_free_cas"]
    /\ UNCHANGED <<pools, origin, mem, op, layout, pool_idx, ptr, curr, result,
                   held, issuer, stack, ever_freed, search, rest, port, call, calls>>

\* self.free.compare_exchange_weak(curr, next, AcqRel, Acquire): it stores
\* next when free is still curr, and may fail whatever free is.
AllocFreeCas(c) ==
    /\ pc[c] = "alloc_free_cas"
    /\ \/ /\ pools[self(c)].free = curr[c]
          /\ pools' = [pools EXCEPT ![self(c)].free = next[c]]
          /\ stack' = [stack EXCEPT ![self(c)] = Without(@, curr[c])]
          /\ pc' = [pc EXCEPT ![c] = "alloc_free_sub"]
          /\ UNCHANGED <<curr, next>>
       \/ /\ pc' = [pc EXCEPT ![c] = LoopTop(pc[c])]
          /\ curr' = [curr EXCEPT ![c] = NULL]
          /\ next' = [next EXCEPT ![c] = NULL]
          /\ UNCHANGED <<pools, stack>>
    /\ UNCHANGED <<origin, mem, op, layout, pool_idx, ptr, result, held, issuer, ever_freed, search, rest, port, call, calls>>

\* self.remain.fetch_sub(1, Relaxed); break Some(curr)
AllocFreeSub(c) ==
    /\ pc[c] = "alloc_free_sub"
    /\ pools' = [pools EXCEPT ![self(c)].remain = wrapping_sub(@, 1)]
    /\ PoolAllocateSome(c, curr[c])
    /\ UNCHANGED <<origin, mem, op, layout, ptr, curr, next, held, issuer, stack, ever_freed, search, rest, port, call, calls>>

(***************************************************************************)
(* Pool::alloc_uninit                                                      *)
(***************************************************************************)
\* curr == self.edge
MutAtEdge(v, pool) == v > pool.edge

AtEdge(v, pool) == v = pool.edge

\* curr.add(count)
MutAdd(p, count) == p + 1

add(p, count) == p + count

\* Some(NonNull::new_unchecked(curr))
MutUninitBlock(c) == next[c]

UninitBlock(c) == curr[c]

\* let curr = self.uninit.load(Relaxed); if curr == self.edge { break None }
\* let next = curr.add(self.block_size)
AllocUninitLoad(c) ==
    /\ pc[c] = "alloc_uninit_load"
    /\ LET pool == pools[self(c)]
           v == pool.uninit
       IN  IF AtEdge(v, pool)
           THEN /\ PoolAllocateNone(c)
                /\ curr' = [curr EXCEPT ![c] = NULL]
                /\ next' = [next EXCEPT ![c] = NULL]
           ELSE /\ curr' = [curr EXCEPT ![c] = v]
                /\ next' = [next EXCEPT ![c] = add(v, pool.block_size)]
                /\ pc' = [pc EXCEPT ![c] = "alloc_uninit_cas"]
                /\ UNCHANGED <<pool_idx, result>>
    /\ UNCHANGED <<pools, origin, mem, op, layout, ptr, held, issuer, stack, ever_freed, search, rest, port, call, calls>>

\* self.uninit.compare_exchange_weak(curr, next, Relaxed, Relaxed)
AllocUninitCas(c) ==
    /\ pc[c] = "alloc_uninit_cas"
    /\ \/ /\ pools[self(c)].uninit = curr[c]
          /\ pools' = [pools EXCEPT ![self(c)].uninit = next[c]]
          /\ pc' = [pc EXCEPT ![c] = "alloc_uninit_sub"]
          /\ UNCHANGED <<curr, next>>
       \/ /\ pc' = [pc EXCEPT ![c] = LoopTop(pc[c])]
          /\ curr' = [curr EXCEPT ![c] = NULL]
          /\ next' = [next EXCEPT ![c] = NULL]
          /\ UNCHANGED pools
    /\ UNCHANGED <<origin, mem, op, layout, pool_idx, ptr, result, held, issuer, stack, ever_freed, search, rest, port, call, calls>>

\* self.remain.fetch_sub(1, Relaxed); break Some(curr)
AllocUninitSub(c) ==
    /\ pc[c] = "alloc_uninit_sub"
    /\ pools' = [pools EXCEPT ![self(c)].remain = wrapping_sub(@, 1)]
    /\ PoolAllocateSome(c, UninitBlock(c))
    /\ UNCHANGED <<origin, mem, op, layout, ptr, curr, next, held, issuer, stack, ever_freed, search, rest, port, call, calls>>

(***************************************************************************)
(* Pool::deallocate                                                        *)
(***************************************************************************)
\* The word deallocate writes at ptr: the head it loaded.
MutLink(c) == NULL

Link(c) == curr[c]

\* let curr = self.free.load(Acquire)
DeallocLoad(c) ==
    /\ pc[c] = "dealloc_load"
    /\ curr' = [curr EXCEPT ![c] = pools[self(c)].free]
    /\ pc' = [pc EXCEPT ![c] = "dealloc_write"]
    /\ UNCHANGED <<pools, origin, mem, op, layout, pool_idx, ptr, next, result,
                   held, issuer, stack, ever_freed, search, rest, port, call, calls>>

\* ptr::write(ptr.as_ptr().cast::<*mut u8>(), curr); let next = ptr
DeallocWrite(c) ==
    /\ pc[c] = "dealloc_write"
    /\ mem' = [mem EXCEPT ![ptr[c]] = WordBytes(Link(c))]
    /\ next' = [next EXCEPT ![c] = ptr[c]]
    /\ pc' = [pc EXCEPT ![c] = "dealloc_cas"]
    /\ UNCHANGED <<pools, origin, op, layout, pool_idx, ptr, curr, result,
                   held, issuer, stack, ever_freed, search, rest, port, call, calls>>

\* self.free.compare_exchange_weak(curr, next, AcqRel, Acquire)
DeallocCas(c) ==
    /\ pc[c] = "dealloc_cas"
    /\ \/ /\ pools[self(c)].free = curr[c]
          /\ pools' = [pools EXCEPT ![self(c)].free = next[c]]
          /\ stack' = [stack EXCEPT ![self(c)] = <<next[c]>> \o Without(@, next[c])]
          /\ pc' = [pc EXCEPT ![c] = "dealloc_add"]
          /\ UNCHANGED <<curr, next>>
       \/ /\ pc' = [pc EXCEPT ![c] = LoopTop(pc[c])]
          /\ curr' = [curr EXCEPT ![c] = NULL]
          /\ next' = [next EXCEPT ![c] = NULL]
          /\ UNCHANGED <<pools, stack>>
    /\ UNCHANGED <<origin, mem, op, layout, pool_idx, ptr, result, held, issuer, ever_freed, search, rest, port, call, calls>>

\* self.remain.fetch_add(1, Relaxed); break
DeallocAdd(c) ==
    /\ pc[c] = "dealloc_add"
    /\ pools' = [pools EXCEPT ![self(c)].remain = wrapping_add(@, 1)]
    /\ result' = [result EXCEPT ![c] = Unit]
    /\ pc' = [pc EXCEPT ![c] = "done"]
    /\ UNCHANGED <<origin, mem, op, layout, pool_idx, ptr, curr, next, held, issuer, stack, ever_freed, search, rest, port, call, calls>>

(***************************************************************************)
(* The caller: it takes what the call returned, and it uses its blocks.    *)
(***************************************************************************)
\* The block a finished call hands to its caller, NULL when none.
Handed(c) ==
    IF \/ result[c].kind = "Some"
       \/ result[c].kind = "Ok" /\ result[c].len > 0
    THEN result[c].ptr ELSE NULL

\* The function f, with the value v at a when f does not keep a yet: the
\* model starts to keep an address outside the heap when a pool hands it out.
Keep(f, a, v) == IF a \in DOMAIN f THEN f ELSE (a :> v) @@ f

Return(c) ==
    /\ pc[c] = "done"
    /\ call[c].stage \in {"none", "end"}
    /\ call' = [call EXCEPT ![c] = NoCall]
    /\ LET h == Handed(c)
           \* the pool whose allocate returned h
           i == IF call[c].kind \in {"grow", "grow_zeroed", "shrink"}
                THEN call[c].pool ELSE pool_idx[c]
       IN  IF h = NULL
           THEN UNCHANGED <<held, issuer, mem, rest>>
           ELSE /\ held' = [Keep(held, h, 0) EXCEPT ![h] = @ + 1]
                /\ issuer' = [Keep(issuer, h, [k \in DOMAIN pools |-> 0])
                                 EXCEPT ![h][i] = @ + 1]
                /\ mem' = Keep(mem, h, Zeros(WordSize))
                /\ rest' = Keep(rest, h, << >>)
    /\ pc' = [pc EXCEPT ![c] = "idle"]
    /\ op' = [op EXCEPT ![c] = "none"]
    /\ layout' = [layout EXCEPT ![c] = NoLayout]
    /\ pool_idx' = [pool_idx EXCEPT ![c] = 0]
    /\ ptr' = [ptr EXCEPT ![c] = NULL]
    /\ curr' = [curr EXCEPT ![c] = NULL]
    /\ next' = [next EXCEPT ![c] = NULL]
    /\ result' = [result EXCEPT ![c] = NoResult]
    /\ UNCHANGED <<pools, origin, stack, ever_freed, search, port, calls>>

\* A holder stores a word into the first word of its block.
Store(a, w) ==
    /\ held[a] > 0
    /\ mem[a] /= WordBytes(w)
    /\ mem' = [mem EXCEPT ![a] = WordBytes(w)]
    /\ UNCHANGED <<pools, origin, pc, op, layout, pool_idx, ptr, curr, next,
                   result, held, issuer, stack, ever_freed, search, rest, port, call, calls>>

(***************************************************************************)
(* grow, grow_zeroed, shrink and allocate_zeroed: the outer call keeps its *)
(* frame in call[c] while the inner allocate and deallocate run.           *)
(***************************************************************************)
ResizeKinds == {"grow", "grow_zeroed", "shrink"}

\* What the caller may pass as ptr with the layout lay: a block it holds
\* that the layout fits, or the dangling pointer of a zero-size layout.
FitsBlock(p, lay) ==
    \/ lay.size = 0 /\ p = dangling(lay)
    \/ /\ lay.size > 0
       /\ p \in AllBlocks /\ held[p] > 0
       /\ lay.size <= pools[PoolOf(p)].block_size

\* The frame of a call, with the pools and the bytes at ptr as the call
\* finds them.
Frame(kind, p, old_layout, new_layout) ==
    [kind |-> kind, stage |-> "alloc", ptr |-> p,
     old_layout |-> old_layout, new_layout |-> new_layout, new |-> NoResult,
     pool |-> 0, pools0 |-> pools,
     bytes0 |-> IF p \in AllBlocks THEN BlockBytes(p) ELSE << >>]

\* trace::grow for grow and grow_zeroed, trace::shrink for shrink
trace_resize(kind, p, old_layout, new_layout) ==
    IF kind = "shrink" THEN trace_shrink(p, old_layout, new_layout)
                       ELSE trace_grow(p, old_layout, new_layout)

\* grow, grow_zeroed, shrink: the trace event, then allocate(heap, new_layout)
\* up to the first pool.allocate().
ResizeCall(c, kind, p, old_layout, new_layout) ==
    /\ pc[c] = "idle"
    /\ MayAllocate
    /\ FitsBlock(p, old_layout)
    /\ IF kind = "shrink" THEN new_layout.size <= old_layout.size
                          ELSE new_layout.size >= old_layout.size
    /\ call' = [call EXCEPT ![c] = Frame(kind, p, old_layout, new_layout)]
    /\ port' = trace_allocate(
                  trace_resize(kind, Fresh(port), old_layout, new_layout), new_layout)
    /\ AllocateEnter(c, new_layout)
    /\ UNCHANGED <<pools, origin, mem, ptr, curr, next, held, issuer, stack, ever_freed, search, rest>>

\* allocate_zeroed, up to the first pool.allocate()
AllocateZeroedCall(c, lay) ==
    /\ pc[c] = "idle"
    /\ MayAllocate
    /\ call' = [call EXCEPT ![c] = Frame("allocate_zeroed", NULL, NoLayout, lay)]
    /\ port' = trace_allocate(Fresh(port), lay)
    /\ AllocateEnter(c, lay)
    /\ UNCHANGED <<pools, origin, mem, ptr, curr, next, held, issuer, stack, ever_freed, search, rest>>

\* `allocate(heap, new_layout)?` on Err: the call returns the error.
MutOnErr(c) ==
    /\ call' = [call EXCEPT ![c].stage = "dealloc"]
    /\ DeallocateEnter(c, call[c].ptr, call[c].old_layout)

OnErr(c) ==
    /\ call' = [call EXCEPT ![c].stage = "end"]
    /\ UNCHANGED <<op, layout, ptr, result, pc, pool_idx, held, issuer, ever_freed>>

ResizeErr(c) ==
    /\ pc[c] = "done" /\ call[c].stage = "alloc"
    /\ result[c] = Err
    /\ OnErr(c)
    /\ UNCHANGED <<pools, origin, mem, curr, next, stack, search, rest, port, calls>>

\* ptr.len(): the length of the slice allocate returned.
MutZeroLen(c) == call[c].new_layout.size

ZeroLen(c) == result[c].len

\* allocate_zeroed: ptr.write_bytes(0, ptr.len()); Ok(ptr)
ZeroFill(c) ==
    /\ pc[c] = "done" /\ call[c].stage = "alloc"
    /\ call[c].kind \in {"allocate_zeroed", "grow_zeroed"}
    /\ result[c].kind = "Ok"
    /\ IF result[c].len > 0
       THEN LET b == write_bytes(result[c].ptr, ZeroLen(c))
            IN  /\ mem' = MemWith(result[c].ptr, b)
                /\ rest' = RestWith(result[c].ptr, b)
       ELSE UNCHANGED <<mem, rest>>
    /\ call' = [call EXCEPT ![c].stage =
                   IF call[c].kind = "allocate_zeroed" THEN "end" ELSE "zeroed"]
    /\ UNCHANGED <<pools, origin, pc, op, layout, pool_idx, ptr, curr, next,
                   result, held, issuer, stack, ever_freed, search, port, calls>>

\* The count of the copy: old_layout.size() in grow and grow_zeroed,
\* new_layout.size() in shrink.
CopyLen(c) ==
    IF call[c].kind = "shrink" THEN call[c].new_layout.size
                               ELSE call[c].old_layout.size

\* ptr::copy_nonoverlapping(ptr.as_ptr(), new_ptr.as_mut_ptr(), count)
ResizeCopy(c) ==
    /\ pc[c] = "done"
    /\ \/ call[c].stage = "alloc" /\ call[c].kind \in {"grow", "shrink"}
       \/ call[c].stage = "zeroed"
    /\ result[c].kind = "Ok"
    /\ IF CopyLen(c) > 0
       THEN LET b == copy_nonoverlapping(call[c].ptr, result[c].ptr, CopyLen(c))
            IN  /\ mem' = MemWith(result[c].ptr, b)
                /\ rest' = RestWith(result[c].ptr, b)
       ELSE UNCHANGED <<mem, rest>>
    /\ call' = [call EXCEPT ![c].stage = "copied", ![c].new = result[c],
                            ![c].pool = pool_idx[c]]
    /\ UNCHANGED <<pools, origin, pc, op, layout, pool_idx, ptr, curr, next,
                   result, held, issuer, stack, ever_freed, search, port, calls>>

\* deallocate(heap, ptr, old_layout), up to pool.deallocate(ptr)
ResizeDeallocate(c) ==
    /\ pc[c] = "done" /\ call[c].stage = "copied"
    /\ port' = trace_deallocate(port, call[c].old_layout)
    /\ DeallocateEnter(c, call[c].ptr, call[c].old_layout)
    /\ call' = [call EXCEPT ![c].stage = "dealloc"]
    /\ UNCHANGED <<pools, origin, mem, curr, next, stack, search, rest, calls>>

\* Ok(new_ptr)
MutResizeResult(c) == Ok(call[c].ptr, call[c].new.len)

ResizeResult(c) == call[c].new

ResizeOk(c) ==
    /\ pc[c] = "done" /\ call[c].stage = "dealloc"
    /\ result' = [result EXCEPT ![c] = ResizeResult(c)]
    /\ call' = [call EXCEPT ![c].stage = "end"]
    /\ UNCHANGED <<pools, origin, mem, pc, op, layout, pool_idx, ptr, curr, next,
                   held, issuer, stack, ever_freed, search, rest, port, calls>>

\* The steps of the outer call between its inner calls.
ResizeStep(c) ==
    \/ ResizeErr(c)
    \/ ZeroFill(c)
    \/ ResizeCopy(c)
    \/ ResizeDeallocate(c)
    \/ ResizeOk(c)

\* A holder fills its block: byte k of the block becomes seed + k.
Pattern(seed, len) == [k \in 1..len |-> (seed + k) % 256]

Fill(c, a, seed) ==
    /\ pc[c] = "idle"
    /\ held[a] > 0
    /\ BlockBytes(a) /= Pattern(seed, Len(BlockBytes(a)))
    /\ mem' = MemWith(a, Pattern(seed, Len(BlockBytes(a))))
    /\ rest' = RestWith(a, Pattern(seed, Len(BlockBytes(a))))
    /\ UNCHANGED <<pools, origin, pc, op, layout, pool_idx, ptr, curr, next,
                   result, held, issuer, stack, ever_freed, search, port, call, calls>>

\* The calls a context makes on a pool.
PoolCall(c) ==
    \/ \E i \in DOMAIN pools : PoolAllocateCall(c, i) /\ UNCHANGED calls
    \/ \E i \in DOMAIN pools, p \in DOMAIN held :
          PoolDeallocateCall(c, i, p) /\ UNCHANGED calls

\* The calls a context makes on the dispatcher.
DispatcherCall(c, layouts) ==
    \/ \E lay \in layouts : AllocateCall(c, lay) /\ UNCHANGED calls
    \/ \E p \in DOMAIN held \cup {dangling(l) : l \in layouts}, lay \in layouts :
          DeallocateCall(c, p, lay) /\ UNCHANGED calls

\* The steps of a context inside a call, and its return.
Step(c) ==
    \/ AllocFreeLoad(c)
    \/ AllocFreeRead(c)
    \/ AllocFreeCas(c)
    \/ AllocFreeSub(c)
    \/ AllocUninitLoad(c)
    \/ AllocUninitCas(c)
    \/ AllocUninitSub(c)
    \/ DeallocLoad(c)
    \/ DeallocWrite(c)
    \/ DeallocCas(c)
    \/ DeallocAdd(c)
    \/ Return(c)

\* A run of Spec makes at most MaxPoolCalls calls of the pools.
CountedPoolCall == calls < MaxPoolCalls /\ calls' = calls + 1

Next ==
    \/ \E c \in Contexts, i \in DOMAIN pools :
          CountedPoolCall /\ PoolAllocateCall(c, i)
    \/ \E c \in Contexts, i \in DOMAIN pools, p \in DOMAIN held :
          CountedPoolCall /\ PoolDeallocateCall(c, i, p)
    \/ \E c \in Contexts : Step(c)
    \/ \E a \in DOMAIN held, w \in UserWords : Store(a, w)

\* Any interleaving of the contexts' Pool::allocate and Pool::deallocate
\* calls on the pools of one heap, the holders storing words into their
\* blocks in between.
Spec == Init /\ [][Next]_vars

NextSingle ==
    \/ DispatcherCall(1, Layouts)
    \/ PoolCall(1)
    \/ Step(1)
    \/ \E a \in DOMAIN held, w \in UserWords : Store(a, w)

\* One context alone, calling the dispatcher and the pools.
SpecSingle == InitSingle /\ [][NextSingle]_vars

(***************************************************************************)
(* One context alone calling every entry of the dispatcher, on heaps with  *)
(* and without a trace port.                                               *)
(***************************************************************************)
DispatchConfigs ==
    { << <<8, 8, 2>>, <<24, 16, 1>> >>,
      << <<8, 8, 1>>, <<16, 16, 1>>, <<32, 32, 1>> >> }

\* 16777473 = 2^24 + 2^8 + 1 fits no pool and has bits in every field of
\* the trace words.
DispatchLayouts ==
    {Layout(size, 1) : size \in {0, 3, 9, 17, 16777473}} \cup {Layout(0, 4)}

\* HEAPTRACE_KEY
Keys == {[hi |-> 50604, lo |-> 52821]}

Ports ==
    {NoPort}
    \cup {[trace_port |-> "Some", enabled |-> e, key |-> k, words |-> << >>] :
             e \in BOOLEAN, k \in Keys}

FillSeeds == {16}

InitDispatch == InitHeapIn(DispatchConfigs, Ports, {})

\* A run makes at most MaxCalls calls of the dispatcher.
Counted == calls < MaxCalls /\ calls' = calls + 1

NextDispatch ==
    \/ \E lay \in DispatchLayouts : Counted /\ AllocateCall(1, lay)
    \/ \E p \in DOMAIN held \cup {dangling(l) : l \in DispatchLayouts},
          lay \in DispatchLayouts : Counted /\ DeallocateCall(1, p, lay)
    \/ \E kind \in ResizeKinds,
          p \in DOMAIN held \cup {dangling(l) : l \in DispatchLayouts},
          old_layout \in DispatchLayouts, new_layout \in DispatchLayouts :
          Counted /\ ResizeCall(1, kind, p, old_layout, new_layout)
    \/ \E lay \in DispatchLayouts : Counted /\ AllocateZeroedCall(1, lay)
    \/ Step(1)
    \/ ResizeStep(1)
    \/ \E a \in DOMAIN held, seed \in FillSeeds : Fill(1, a, seed)

SpecDispatch == InitDispatch /\ [][NextDispatch]_vars

(***************************************************************************)
(* Claims about the pools.                                                 *)
(***************************************************************************)
\* The blocks of pool i the bump cursor has not reached.
NeverTouched(i) == {a \in BlocksOf(i) : a >= pools[i].uninit}

\* The addresses on the chain of links from a, up to null or a repetition.
RECURSIVE Chain(_, _)
Chain(a, seen) ==
    IF a = NULL \/ a \in seen \/ a \notin DOMAIN mem THEN seen
    ELSE Chain(read(a), seen \cup {a})

\* The blocks on the free list of pool i.
FreeListed(i) == Chain(pools[i].free, {})

\* The block a call of context c has taken and not yet returned, or was
\* given and has not yet pushed; NULL when none.
InCall(c) ==
    IF pc[c] \in {"alloc_free_sub", "alloc_uninit_sub"} THEN curr[c]
    ELSE IF pc[c] = "done" THEN Handed(c)
    ELSE IF pc[c] \in {"dealloc_load", "dealloc_write", "dealloc_cas"} THEN ptr[c]
    ELSE NULL

\* How many callers and calls hold the address a.
Holders(a) == held[a] + Cardinality({c \in Contexts : InCall(c) = a})

Allocated == {a \in DOMAIN held : Holders(a) > 0}

\* How many of the three states the block a of pool i is in.
StatesOf(i, a) ==
    (IF a \in NeverTouched(i) THEN 1 ELSE 0)
    + (IF a \in FreeListed(i) THEN 1 ELSE 0)
    + (IF a \in Allocated THEN 1 ELSE 0)

\* C1: under any interleaving of Pool::allocate and Pool::deallocate calls,
\* every block is in exactly one of the states never-touched, free-listed
\* and allocated, and no address has two holders.
C1_BlockStates ==
    \A i \in DOMAIN pools : \A a \in BlocksOf(i) :
        /\ StatesOf(i, a) = 1
        /\ Holders(a) <= 1

(***************************************************************************)
(* Claims about binary_search.                                             *)
(***************************************************************************)
Least(S) == CHOOSE x \in S : \A y \in S : x <= y

\* The smallest index whose pool has block_size >= size, or N.
SmallestWithSize(heap, size) ==
    Least({i \in DOMAIN heap : heap[i].block_size >= size} \cup {N(heap)})

\* The smallest index whose pool has edge > p, or N.
SmallestWithEdge(heap, p) ==
    Least({i \in DOMAIN heap : heap[i].edge > p} \cup {N(heap)})

\* Every loop turn keeps 0 <= left <= right <= N and shrinks right - left.
SearchProgress ==
    (search.pc = "loop" /\ search'.pc = "loop")
        => /\ 0 <= search'.left /\ search'.left <= search'.right
           /\ search'.right <= N(pools)
           /\ search'.right - search'.left < search.right - search.left

C2_Result ==
    /\ search.value.kind = "layout" =>
          binary_search(pools, search.value) = SmallestWithSize(pools, search.value.v)
    /\ (search.pc = "done" /\ search.value.kind = "layout") =>
          search.left = SmallestWithSize(pools, search.value.v)

\* C2: on a pool array sorted ascending by block_size, binary_search with a
\* size probe terminates (every loop turn shrinks right - left) and returns
\* the smallest index in [0, N] whose pool has block_size >= size, N when
\* no pool has.
C2_BinarySearchBySize == [](C2_Result) /\ [][SearchProgress]_vars

\* C2 witness: a full-length array searched to an inner index, the pool
\* before it too small for the size.
C2_Witness ==
    /\ search.pc = "done" /\ search.value.kind = "layout"
    /\ N(pools) = MaxN
    /\ 0 < search.left /\ search.left < N(pools) - 1
    /\ pools[search.left - 1].block_size < search.value.v
    /\ pools[search.left].block_size > search.value.v

C3_Result ==
    /\ search.value.kind = "ptr" =>
          binary_search(pools, search.value) = SmallestWithEdge(pools, search.value.v)
    /\ (search.pc = "done" /\ search.value.kind = "ptr") =>
          /\ search.left = SmallestWithEdge(pools, search.value.v)
          /\ \A i \in DOMAIN pools :
                pools[i].edge = search.value.v =>
                   /\ search.left > i
                   /\ (i + 1 < N(pools) /\ pools[i + 1].edge > search.value.v)
                         => search.left = i + 1
                   /\ i + 1 = N(pools) => search.left = N(pools)

\* C3: on a pool array whose address ranges ascend without overlap,
\* binary_search with an address probe returns the smallest index whose pool
\* has edge > address, N when the address is at or beyond the last edge; an
\* address equal to a pool's edge resolves past that pool, to the following
\* one.
C3_BinarySearchByAddress == [](AddrOrdered(pools, origin) /\ C3_Result) /\ [][SearchProgress]_vars

\* C3 witness: an address equal to the edge of an inner pool, resolved to
\* the pool after it.
C3_Witness ==
    /\ search.pc = "done" /\ search.value.kind = "ptr"
    /\ N(pools) = MaxN
    /\ \E i \in DOMAIN pools :
          /\ i + 1 < N(pools)
          /\ pools[i].edge = search.value.v
          /\ origin[i] < pools[i].edge
          /\ search.left = i + 1

\* The block size of the pool a finished search resolved to, 0 for index N.
Resolved ==
    IF search.left < N(pools) THEN pools[search.left].block_size ELSE 0

FixtureDone(value) == search.pc = "done" /\ search.value = value

FixtureCommon ==
    /\ N(pools) = 10
    /\ pools[N(pools) - 1].edge = 32320
    /\ FixtureDone(LayoutProbe(1)) => Resolved = 2
    /\ FixtureDone(LayoutProbe(2)) => Resolved = 2
    /\ FixtureDone(LayoutProbe(17)) => Resolved = 23
    /\ FixtureDone(LayoutProbe(92)) => search.left = N(pools)
    /\ FixtureDone(PtrProbe(220)) => Resolved = 5
    /\ (search.pc = "done" /\ search.value.kind = "ptr" /\ search.value.v >= 32320)
          => search.left = N(pools)

\* C4 as stated: in the fixture, sizes 1 and 2 resolve to the size-2 pool,
\* 17 to the size-23 pool, 92 to N; address 220 resolves to the size-5 pool,
\* address 719 to the size-8 pool, every address >= 32320 to N.
C4_Original ==
    /\ FixtureCommon
    /\ FixtureDone(PtrProbe(719)) => Resolved = 8

\* C4 amended: as stated, but address 719 resolves to the size-5 pool (the
\* size-8 pool starts at 720).
C4_Fixture ==
    /\ FixtureCommon
    /\ FixtureDone(PtrProbe(719)) => Resolved = 5
    /\ FixtureDone(PtrProbe(720)) => Resolved = 8

\* C4 witness: the search for address 719 has finished.
C4_Witness == FixtureDone(PtrProbe(719)) /\ search.left = 1

(***************************************************************************)
(* Claims about one context alone.                                         *)
(***************************************************************************)
\* The blocks of pool i that callers hold.
HeldOf(i) == {a \in BlocksOf(i) : held[a] > 0}

\* Context c has finished a Pool::allocate, called directly or by the
\* dispatcher, on pool i with a block.
AllocatedFrom(c, i) ==
    /\ pc[c] = "done" /\ op[c] \in {"Pool.allocate", "allocate"}
    /\ Handed(c) /= NULL /\ pool_idx[c] = i

\* C5: in a single context, the allocations from a pool on which deallocate
\* was never called return origin, origin + block_size, ... in call order:
\* the next one returns origin + n * block_size when n blocks are held, an
\* address inside [origin, edge) that no caller holds.
C5_FreshAllocations ==
    \A i \in DOMAIN pools :
        ~ever_freed[i] =>
            /\ HeldOf(i) = {origin[i] + j * pools[i].block_size :
                               j \in 0..(Cardinality(HeldOf(i)) - 1)}
            /\ Cardinality(HeldOf(i)) <= pools[i].capacity
            /\ AllocatedFrom(1, i) =>
                  /\ Handed(1) = origin[i] + Cardinality(HeldOf(i)) * pools[i].block_size
                  /\ Handed(1) >= origin[i]
                  /\ Handed(1) + pools[i].block_size <= pools[i].edge
                  /\ Handed(1) \notin HeldOf(i)

\* C5 witness: the third allocation from a pool of capacity 3 that never
\* saw a deallocation.
C5_Witness ==
    \E i \in DOMAIN pools :
        /\ ~ever_freed[i] /\ pools[i].capacity = 3
        /\ AllocatedFrom(1, i) /\ Cardinality(HeldOf(i)) = 2
        /\ Handed(1) = origin[i] + 2 * pools[i].block_size

\* The step in which context c takes a block from pool i.
TakesFrom(c, i) ==
    /\ pool_idx[c] = i
    /\ pc[c] \in {"alloc_free_cas", "alloc_uninit_cas"}
    /\ pc'[c] \in {"alloc_free_sub", "alloc_uninit_sub"}

C6_Step ==
    \A i \in DOMAIN pools :
        /\ (TakesFrom(1, i) /\ stack[i] /= << >>) =>
              /\ curr[1] = Head(stack[i])
              /\ pools'[i].uninit = pools[i].uninit
        /\ pools'[i].uninit /= pools[i].uninit =>
              /\ stack[i] = << >>
              /\ pools[i].free = NULL

C6_Returned ==
    \A i \in DOMAIN pools : AllocatedFrom(1, i) => Handed(1) = curr[1]

\* C6: in a single context, an allocation made while some freed block of
\* the pool has not been taken again takes the most recently freed of them
\* and leaves the bump cursor alone; the bump cursor moves only when the
\* free list is empty.  What is taken is what is returned.
C6_LifoReuse == [][C6_Step]_vars /\ [](C6_Returned)

\* C6 witness: a block is returned from a free list that held two blocks
\* while the bump cursor had not reached the edge.
C6_Witness ==
    \E i \in DOMAIN pools :
        /\ AllocatedFrom(1, i)
        /\ Len(stack[i]) = 1
        /\ Handed(1) \in BlocksOf(i) /\ Handed(1) < pools[i].uninit
        /\ Handed(1) > Head(stack[i])
        /\ pools[i].uninit /= pools[i].edge

\* Context c has finished a Pool::allocate called on pool i.
PoolAllocateDone(c, i) ==
    pc[c] = "done" /\ op[c] = "Pool.allocate" /\ pool_idx[c] = i

\* C7: in a single context, Pool::allocate on a pool all of whose blocks are
\* held returns None; on a pool whose cursor is at the edge and of which
\* exactly one block is not held, it returns that block.
C7_Exhaustion ==
    \A i \in DOMAIN pools :
        PoolAllocateDone(1, i) =>
            /\ HeldOf(i) = BlocksOf(i) => result[1] = None
            /\ \A p \in BlocksOf(i) :
                  (pools[i].uninit = pools[i].edge /\ BlocksOf(i) \ HeldOf(i) = {p})
                      => result[1] = Some(p)

\* C7 witness: None from a pool of at least two blocks, all held, after one
\* of them was freed and taken again.
C7_Witness ==
    \E i \in DOMAIN pools :
        /\ PoolAllocateDone(1, i) /\ result[1] = None
        /\ pools[i].capacity >= 2 /\ HeldOf(i) = BlocksOf(i)
        /\ ever_freed[i]

\* The step in which context c calls the dispatcher with a zero-size layout.
ZeroSizeCall(c) ==
    /\ pc[c] = "idle" /\ pc'[c] /= "idle"
    /\ op'[c] \in {"allocate", "deallocate"}
    /\ layout'[c].size = 0

C8_Step ==
    /\ ZeroSizeCall(1) =>
          /\ pc'[1] = "done"
          /\ pools' = pools /\ mem' = mem /\ held' = held
          /\ op'[1] = "allocate" =>
                /\ result'[1].kind = "Ok"
                /\ result'[1].ptr /= NULL
                /\ result'[1].len = 0
          /\ op'[1] = "deallocate" => result'[1] = Unit
    /\ (pc[1] = "done" /\ pc'[1] = "idle" /\ layout[1].size = 0
           /\ op[1] \in {"allocate", "deallocate"}) =>
          /\ pools' = pools /\ mem' = mem /\ held' = held

\* C8: the dispatcher's allocate with a zero-size layout returns Ok with a
\* non-null pointer and length 0 and its deallocate with a zero-size layout
\* returns at once; neither changes any pool (free, uninit, remain), any
\* block or what the callers hold.
C8_ZeroSize == [][C8_Step]_vars

\* C8 witness: a zero-size allocate has returned on a heap with a block
\* held and a block on a free list.
C8_Witness ==
    /\ pc[1] = "done" /\ op[1] = "allocate" /\ layout[1].size = 0
    /\ result[1] = Ok(4, 0)
    /\ \E i \in DOMAIN pools : pools[i].free /= NULL
    /\ \E a \in DOMAIN held : held[a] > 0

\* The pools from index i on of which some block is not held.
AvailableFrom(i) == {k \in DOMAIN pools : k >= i /\ BlocksOf(k) \ HeldOf(k) /= {}}

\* C9: in a single context, the dispatcher's allocate of a non-zero size,
\* with i the smallest index whose block_size >= size, fails exactly when no
\* pool in [i, N) has a block that is not held; otherwise it returns a
\* block, not held, of the lowest such pool j with length block_size[j] >=
\* size.
C9_Upgrade ==
    (pc[1] = "done" /\ op[1] = "allocate" /\ layout[1].size /= 0) =>
        LET i == SmallestWithSize(pools, layout[1].size)
        IN  IF AvailableFrom(i) = {}
            THEN result[1] = Err
            ELSE LET j == Least(AvailableFrom(i))
                 IN  /\ result[1].kind = "Ok"
                     /\ result[1].ptr \in BlocksOf(j) \ HeldOf(j)
                     /\ result[1].len = pools[j].block_size
                     /\ result[1].len >= layout[1].size
                     /\ j >= i

\* C9 witness: an allocation served by a larger pool than the best fit.
C9_Witness ==
    /\ pc[1] = "done" /\ op[1] = "allocate" /\ layout[1].size /= 0
    /\ result[1].kind = "Ok"
    /\ pool_idx[1] > SmallestWithSize(pools, layout[1].size)
    /\ result[1].len > pools[SmallestWithSize(pools, layout[1].size)].block_size

\* The pool whose address range contains p.
Issuer(p) == CHOOSE i \in DOMAIN pools : origin[i] <= p /\ p < pools[i].edge

\* Context c has finished the dispatcher's deallocate of a block.
DeallocateDone(c) ==
    pc[c] = "done" /\ op[c] = "deallocate" /\ ptr[c] \in AllBlocks

\* C10 as stated: whatever layout.size is, the dispatcher's deallocate of a
\* block leaves it at the head of the free list of the pool that issued it.
C10_Original ==
    DeallocateDone(1) => pools[Issuer(ptr[1])].free = ptr[1]

C10_Done ==
    (DeallocateDone(1) /\ layout[1].size /= 0) =>
        /\ ptr[1] \in BlocksOf(Issuer(ptr[1]))
        /\ pools[Issuer(ptr[1])].free = ptr[1]
        /\ ptr[1] \in FreeListed(Issuer(ptr[1]))
        /\ Head(stack[Issuer(ptr[1])]) = ptr[1]

C10_Step ==
    (op[1] = "deallocate" /\ pc[1] /= "idle" /\ ptr[1] \in AllBlocks) =>
        \A k \in DOMAIN pools : k /= Issuer(ptr[1]) => pools'[k] = pools[k]

\* C10 amended: for every non-zero layout.size, whichever pool fits that
\* size, the dispatcher's deallocate of a block pushes it onto the free list
\* of the pool whose address range contains it and changes no other pool; a
\* zero-size layout returns at once and pushes nothing.
C10_DeallocateByAddress == [](C10_Done) /\ [][C10_Step]_vars

\* C10 witness: a block issued by a larger pool through the upgrade,
\* deallocated with the layout it was asked with, whose size fits a smaller
\* pool.
C10_Witness ==
    /\ DeallocateDone(1) /\ layout[1].size /= 0
    /\ SmallestWithSize(pools, layout[1].size) < Issuer(ptr[1])
    /\ pools[Issuer(ptr[1])].free = ptr[1]

(***************************************************************************)
(* Claims about grow, grow_zeroed and shrink.                              *)
(***************************************************************************)
\* The inner allocation of the grow, grow_zeroed or shrink of context c has
\* failed.
ResizeFailed(c) ==
    /\ call[c].kind \in ResizeKinds
    /\ call[c].stage \in {"alloc", "end"}
    /\ pc[c] = "done" /\ result[c] = Err

C11_Failed ==
    /\ (call[1].kind \in ResizeKinds /\ call[1].stage = "end")
          => (result[1] = Err \/ result[1].kind = "Ok")
    /\ ResizeFailed(1) =>
          /\ pools = call[1].pools0
          /\ call[1].ptr \in AllBlocks =>
                /\ held[call[1].ptr] = 1
                /\ BlockBytes(call[1].ptr) = call[1].bytes0
                /\ call[1].ptr \notin FreeListed(PoolOf(call[1].ptr))

C11_Step ==
    (ResizeFailed(1) /\ call[1].stage = "alloc") =>
        /\ call'[1].stage = "end"
        /\ result'[1] = Err
        /\ pools' = pools /\ mem' = mem /\ rest' = rest /\ held' = held

\* C11: when the allocation inside grow, grow_zeroed or shrink fails, the
\* call returns the failure, the old block is still held with the bytes it
\* had at the call, it is on no free list, and every pool (free, uninit,
\* remain) is as the call found it.
C11_ResizeFailure == [](C11_Failed) /\ [][C11_Step]_vars

\* C11 witness: a grow of a filled block has returned the failure of an
\* allocation that a pool of the heap is large enough for.
C11_Witness ==
    /\ ResizeFailed(1) /\ call[1].stage = "end" /\ call[1].kind = "grow"
    /\ call[1].ptr \in AllBlocks
    /\ call[1].bytes0 = Pattern(16, Len(call[1].bytes0))
    /\ SmallestWithSize(pools, call[1].new_layout.size) < N(pools)

\* A grow, grow_zeroed or shrink of context c with old and new sizes that are
\* not zero.
Resizing(c) ==
    /\ call[c].kind \in ResizeKinds
    /\ call[c].old_layout.size > 0
    /\ call[c].new_layout.size > 0

\* The block the inner allocate of the call has taken, NULL before that.
NewBlock(c) ==
    IF call[c].stage = "alloc"
    THEN (IF pc[c] = "done" /\ result[c].kind = "Ok" THEN result[c].ptr ELSE NULL)
    ELSE IF call[c].stage = "zeroed" THEN result[c].ptr
    ELSE call[c].new.ptr

\* The stages of a call in the order of the code.
StageOrder ==
    {<<"alloc", "zeroed">>, <<"alloc", "copied">>, <<"zeroed", "copied">>,
     <<"copied", "dealloc">>, <<"dealloc", "end">>, <<"alloc", "end">>,
     <<"end", "none">>}

C12_State ==
    Resizing(1) =>
        LET old == call[1].ptr
            new == NewBlock(1)
            i == PoolOf(old)
        IN  /\ call[1].stage \in {"alloc", "zeroed", "copied"} =>
                \* the old block is not released before the copy
                /\ held[old] = 1
                /\ old \notin FreeListed(i)
                /\ new /= NULL =>
                      /\ new /= old
                      /\ new \notin FreeListed(PoolOf(new))
                      /\ new < pools[PoolOf(new)].uninit
            /\ (call[1].stage = "dealloc" /\ pc[1] = "done") =>
                /\ pools[i].free = old
                /\ new \notin FreeListed(PoolOf(new))
            /\ (call[1].stage = "end" /\ result[1].kind = "Ok") =>
                /\ result[1].ptr /= old
                /\ result[1].ptr = new
                /\ held[old] = 0
                /\ pools[i].free = old
                /\ old \in FreeListed(i)
                /\ new \notin FreeListed(PoolOf(new))

C12_Step ==
    Resizing(1) =>
        /\ call'[1].stage /= call[1].stage =>
              <<call[1].stage, call'[1].stage>> \in StageOrder
        \* the old block goes to its free list in the inner deallocate only,
        \* after the new block was taken and the bytes were copied
        /\ (call[1].ptr \notin FreeListed(PoolOf(call[1].ptr))
              /\ pools'[PoolOf(call[1].ptr)].free = call[1].ptr) =>
              /\ call[1].stage = "dealloc"
              /\ call[1].new.kind = "Ok"
        \* the bytes of the new block are written before the old is released
        /\ (NewBlock(1) /= NULL
              /\ mem'[NewBlock(1)] \o rest'[NewBlock(1)]
                    /= BlockBytes(NewBlock(1))) =>
              /\ call[1].stage \in {"alloc", "zeroed"}
              /\ held[call[1].ptr] = 1

\* C12: a grow, grow_zeroed or shrink with old and new sizes that are not
\* zero runs allocate(new), then the copy, then deallocate(old), in that
\* order and never in place: the new block is taken while the old one is
\* still held, the address returned on success differs from the old address,
\* and after the call the old block is at the head of its pool's free list.
C12_ResizeOrder == [](C12_State) /\ [][C12_Step]_vars

\* C12 witness: a grow from a block of one pool to a block of the same pool
\* has returned.
C12_Witness ==
    /\ Resizing(1) /\ call[1].kind = "grow"
    /\ call[1].stage = "end" /\ result[1].kind = "Ok"
    /\ PoolOf(result[1].ptr) = PoolOf(call[1].ptr)
    /\ pools[PoolOf(call[1].ptr)].free = call[1].ptr

\* The first n bytes of a block's bytes.
Prefix(b, n) == SubSeq(b, 1, n)

\* The call of context c has copied CopyLen(c) > 0 bytes.
Copied(c) ==
    /\ call[c].kind \in ResizeKinds
    /\ call[c].stage \in {"copied", "dealloc", "end"}
    /\ call[c].new.kind = "Ok"
    /\ CopyLen(c) > 0

C13_State ==
    /\ (call[1].kind \in ResizeKinds /\ call[1].ptr \in AllBlocks
          /\ call[1].stage \in {"alloc", "zeroed", "copied"}) =>
          \* nothing touches the old block up to and including the copy
          BlockBytes(call[1].ptr) = call[1].bytes0
    /\ Copied(1) =>
          /\ Prefix(BlockBytes(call[1].new.ptr), CopyLen(1))
                = Prefix(call[1].bytes0, CopyLen(1))
          /\ (call[1].stage = "end" /\ call[1].old_layout.size > 0) =>
                \* by now the old block carries the link
                /\ pools[PoolOf(call[1].ptr)].free = call[1].ptr
                /\ result[1] = call[1].new

C13_Step ==
    \* the link is written into the old block after the copy
    (call[1].kind \in ResizeKinds /\ call[1].ptr \in AllBlocks
        /\ mem'[call[1].ptr] /= mem[call[1].ptr]) =>
        /\ call[1].stage = "dealloc"
        /\ pc[1] = "dealloc_write"

\* C13: after a grow the first old_layout.size bytes of the new block, and
\* after a shrink the first new_layout.size bytes, equal the bytes the old
\* block held when the call was made; the old block keeps those bytes until
\* the copy is done, and deallocate writes the link over its first word
\* after that.
C13_ResizeCopy == [](C13_State) /\ [][C13_Step]_vars

\* C13 witness: a grow of a filled block has returned, and the first word
\* of the old block is no longer what it was at the call.
C13_Witness ==
    /\ Copied(1) /\ call[1].kind = "grow" /\ call[1].stage = "end"
    /\ call[1].bytes0 = Pattern(16, Len(call[1].bytes0))
    /\ CopyLen(1) > WordSize
    /\ BlockBytes(call[1].ptr) /= call[1].bytes0
    /\ Prefix(BlockBytes(result[1].ptr), CopyLen(1)) = Prefix(call[1].bytes0, CopyLen(1))

\* C13 witness of the shrink: a shrink of a filled block has returned.
C13_WitnessShrink ==
    /\ Copied(1) /\ call[1].kind = "shrink" /\ call[1].stage = "end"
    /\ call[1].bytes0 = Pattern(16, Len(call[1].bytes0))
    /\ call[1].new_layout.size < call[1].old_layout.size

(***************************************************************************)
(* Claims about the retry loops.                                           *)
(***************************************************************************)
\* Two contexts calling Pool::allocate and Pool::deallocate on one pool.
LockFreeConfigs == { << <<8, 8, 2>> >> }

InitLockFree == InitHeapIn(LockFreeConfigs, {NoPort}, UserWords \ {NULL})

CasPcs == {"alloc_free_cas", "alloc_uninit_cas", "dealloc_cas"}

\* The word the compare_exchange_weak of context c is on.
CasWord(c) ==
    IF pc[c] = "alloc_uninit_cas" THEN pools[pool_idx[c]].uninit
                                  ELSE pools[pool_idx[c]].free

\* compare_exchange_weak(..).is_ok() / is_err() in context c
CasOk(c) ==
    /\ pc[c] \in CasPcs
    /\ Step(c)
    /\ pc'[c] \in {"alloc_free_sub", "alloc_uninit_sub", "dealloc_add"}

CasErr(c) ==
    /\ pc[c] \in CasPcs
    /\ Step(c)
    /\ pc'[c] \notin {"alloc_free_sub", "alloc_uninit_sub", "dealloc_add"}

\* Any interleaving of the two contexts' calls on the pool, the holders
\* storing words into their blocks in between.  Nothing obliges a
\* compare_exchange_weak to succeed, so the specification states no fairness.
SpecLockFree == InitLockFree /\ [][Next]_vars

\* A call of Pool::allocate or Pool::deallocate is in progress.
InProgress(c) == pc[c] \notin {"idle", "done"}

\* The call of context c completes.
Completes(c) == InProgress(c) /\ pc'[c] = "done"

\* The word the load at the top of the retry loop of context c reads.
LoadWord(c) ==
    IF pc[c] = "alloc_uninit_load" THEN pools[pool_idx[c]].uninit
                                   ELSE pools[pool_idx[c]].free

C14_CasStep ==
    \A c \in Contexts :
        \* the loop goes on with the word it loaded
        /\ (pc[c] \in {"alloc_free_load", "alloc_uninit_load", "dealloc_load"}
                /\ Step(c) /\ pc'[c] /= "done") => curr'[c] = LoadWord(c)
        /\ CasOk(c) => CasWord(c) = curr[c]
        /\ CasErr(c) =>
              /\ pc'[c] \in {"alloc_free_load", "alloc_uninit_load", "dealloc_load"}
              /\ pools' = pools /\ mem' = mem
        \* a word another context has changed since the load fails the CAS
        /\ (pc[c] \in CasPcs /\ CasWord(c) /= curr[c] /\ Step(c)) => CasErr(c)
        \* after its successful CAS the call ends with the next step of c
        /\ (pc[c] \in {"alloc_free_sub", "alloc_uninit_sub", "dealloc_add"}
                /\ Step(c)) => Completes(c)

\* The free head and the bump cursor of a pool change in no step but a
\* successful compare_exchange_weak of a call on that pool.
C14_WordStep ==
    \A i \in DOMAIN pools :
        (pools'[i].free /= pools[i].free \/ pools'[i].uninit /= pools[i].uninit)
            => \E c \in Contexts : CasOk(c) /\ pool_idx[c] = i

ReturnsNone(c) ==
    /\ op[c] = "Pool.allocate"
    /\ pc[c] = "alloc_uninit_load"
    /\ pc'[c] = "done" /\ result'[c] = None

\* C15: when Pool::allocate returns None the pool is exhausted at that
\* return, in any interleaving: its free list is empty and its bump cursor
\* is at edge, so the pool has no free-listed and no never-touched block.
C15_NoneWhenExhausted ==
    [][\A c \in Contexts :
          ReturnsNone(c) =>
              /\ pools[pool_idx[c]].free = NULL
              /\ pools[pool_idx[c]].uninit = pools[pool_idx[c]].edge
              /\ FreeListed(pool_idx[c]) = {}
              /\ NeverTouched(pool_idx[c]) = {}]_vars

(***************************************************************************)
(* Claims about calls on different pools.                                  *)
(***************************************************************************)
\* Context c takes a step of a call on its pool.
StepOf(c) ==
    /\ InProgress(c)
    /\ <<pc[c], curr[c], next[c]>> /= <<pc'[c], curr'[c], next'[c]>>

C16_Addresses ==
    \A c \in Contexts :
        \* the block whose link alloc_free reads and the block deallocate
        \* writes are blocks of the pool of the call
        /\ pc[c] \in {"alloc_free_read", "alloc_free_cas"} =>
              curr[c] \in BlocksOf(pool_idx[c])
        /\ pc[c] \in {"dealloc_load", "dealloc_write", "dealloc_cas"} =>
              ptr[c] \in BlocksOf(pool_idx[c])

C16_Step ==
    \A c \in Contexts :
        StepOf(c) =>
            \* what the step writes
            /\ \A k \in DOMAIN pools : k /= pool_idx[c] => pools'[k] = pools[k]
            /\ \A a \in AllBlocks : a \notin BlocksOf(pool_idx[c]) => mem'[a] = mem[a]
            /\ rest' = rest
            \* no call on another pool is sent back to its load or loses the
            \* word its compare_exchange_weak expects
            /\ \A d \in Contexts :
                  (d /= c /\ InProgress(d) /\ pool_idx[d] /= pool_idx[c]) =>
                      /\ pc'[d] = pc[d]
                      /\ pools'[pool_idx[d]] = pools[pool_idx[d]]
                      /\ (pc[d] \in CasPcs => CasWord(d)' = CasWord(d))

\* C16: a Pool::allocate or Pool::deallocate on pool i reads and writes the
\* blocks of pool i only, changes the free head, bump cursor and remain of
\* pool i only, and leaves a call in progress on another pool where it is,
\* with the word its compare_exchange_weak expects.
C16_PoolFrame == [](C16_Addresses) /\ [][C16_Step]_vars

\* C16 witness: the two contexts are at their compare_exchange_weak on
\* different pools.
C16_Witness ==
    /\ pc[1] \in CasPcs /\ pc[2] \in CasPcs
    /\ pool_idx[1] /= pool_idx[2]
    /\ CasWord(1) = curr[1] /\ CasWord(2) = curr[2]

(***************************************************************************)
(* Claims about statistics().                                              *)
(***************************************************************************)
\* Pool::statistics
statistics(pool) ==
    [block_size |-> pool.block_size, capacity |-> pool.capacity,
     remain |-> pool.remain]

\* No call on pool i is in progress.
Quiescent(i) == \A c \in Contexts : InProgress(c) => pool_idx[c] /= i

\* C17: in every state where no call on a pool is in progress, the remain
\* that statistics() reports is the capacity less the number of blocks of
\* the pool that are allocated.
C17_Remain ==
    \A i \in DOMAIN pools :
        Quiescent(i) =>
            statistics(pools[i]).remain
                = as_usize(pools[i].capacity - Cardinality(BlocksOf(i) \cap Allocated))

(***************************************************************************)
(* Claims about the trace words.                                           *)
(***************************************************************************)
\* A 32-bit word with the opcode in its top byte, b in bits 16..23 and low
\* in bits 0..15.
Word(opcode, b, low) == [hi |-> opcode * 256 + b, lo |-> low]

\* The event of an allocate (0xA1, 0xA2) or a deallocate (0xD1, 0xD2).
PairEvent(opcode, size) ==
    << Word(opcode, 0, size \div 16777216),
       Word(opcode + 1, 0, size % 256) >>

\* The event of a grow (0xB1, 0xB2, 0xB3) or a shrink (0xC1, 0xC2, 0xC3).
TripleEvent(opcode, old_size, new_size) ==
    << Word(opcode, 0, old_size \div 16777216),
       Word(opcode + 1, old_size % 256, new_size \div 65536),
       Word(opcode + 2, 0, new_size % 65536) >>

\* The events of the call of context c so far, in the order of the code: a
\* grow or shrink call carries its own event, then the event of the
\* allocate it makes, then the event of the deallocate it makes.
EventsOf(c) ==
    IF call[c].kind \in ResizeKinds
    THEN TripleEvent(IF call[c].kind = "shrink" THEN 193 ELSE 177,
                     call[c].old_layout.size, call[c].new_layout.size)
         \o PairEvent(161, call[c].new_layout.size)
         \o (IF call[c].stage = "dealloc"
                \/ (call[c].stage = "end" /\ result[c].kind = "Ok")
             THEN PairEvent(209, call[c].old_layout.size)
             ELSE << >>)
    ELSE IF call[c].kind = "allocate_zeroed"
    THEN PairEvent(161, call[c].new_layout.size)
    ELSE IF op[c] = "allocate" THEN PairEvent(161, layout[c].size)
    ELSE PairEvent(209, layout[c].size)

\* A call of the dispatcher is in progress or has just finished.
InDispatcher(c) == pc[c] /= "idle" /\ op[c] \in {"allocate", "deallocate"}

\* C19: with the port enabled an allocate writes the two words 0xA1, 0xA2
\* and a deallocate the two words 0xD1, 0xD2, carrying size >> 24 and
\* size & 0xFF; the event of a grow is the three words 0xB1, 0xB2, 0xB3 and
\* that of a shrink 0xC1, 0xC2, 0xC3, carrying old_size >> 24,
\* (old_size & 0xFF) << 16 | new_size >> 16 and new_size & 0xFFFF; every
\* word is XORed with the key; a call writes the words of its events and no
\* other word, and nothing when the port is disabled or TRACE_PORT is None.
C19_TraceWords ==
    InDispatcher(1) =>
        IF port.trace_port = "Some" /\ port.enabled
        THEN /\ Keyed(port.words, port.key) = EventsOf(1)
             /\ \A k \in 1..Len(port.words) : port.words[k] /= EventsOf(1)[k]
        ELSE port.words = << >>

\* The call of context c has finished.
Finished(c) == InDispatcher(c) /\ pc[c] = "done" /\ call[c].stage \in {"none", "end"}

\* C19 as stated: on an enabled port a grow or a shrink has written exactly
\* its three words when it returns, an allocate or a deallocate exactly its
\* two words.
C19_Original ==
    (Finished(1) /\ port.trace_port = "Some" /\ port.enabled) =>
        Keyed(port.words, port.key)
            = IF call[1].kind \in ResizeKinds
              THEN TripleEvent(IF call[1].kind = "shrink" THEN 193 ELSE 177,
                               call[1].old_layout.size, call[1].new_layout.size)
              ELSE IF call[1].kind = "allocate_zeroed"
              THEN PairEvent(161, call[1].new_layout.size)
              ELSE IF op[1] = "allocate" THEN PairEvent(161, layout[1].size)
              ELSE PairEvent(209, layout[1].size)

\* C19 witness: on an enabled port a grow to a size with bits in every field
\* has written its three words and the two words of its allocate.
C19_Witness ==
    /\ InDispatcher(1) /\ port.trace_port = "Some" /\ port.enabled
    /\ call[1].kind = "grow" /\ call[1].stage = "end"
    /\ call[1].old_layout.size = 9 /\ call[1].new_layout.size = 16777473
    /\ Len(port.words) = 5
    /\ Keyed(port.words, port.key)[2] = Word(178, 9, 256)

\* C19 witness of the silent ports: a deallocate has finished on a heap
\* whose port is disabled.
C19_WitnessSilent ==
    /\ InDispatcher(1) /\ port.trace_port = "Some" /\ ~port.enabled
    /\ op[1] = "deallocate" /\ pc[1] = "done" /\ layout[1].size > 0

(***************************************************************************)
(* Claims about the order of the steps of allocate.                        *)
(***************************************************************************)
\* The port is Some and enabled.
Tracing == port.trace_port = "Some" /\ port.enabled

\* Context c enters the dispatcher's allocate in this step.
EntersAllocate(c) ==
    /\ pc[c] = "idle" /\ op'[c] = "allocate" /\ call'[c].kind = "none"

C20_Step ==
    EntersAllocate(1) =>
        \* the event is written whatever the size is
        /\ Tracing => Keyed(port'.words, port.key) = PairEvent(161, layout'[1].size)
        /\ ~Tracing => port'.words = << >>
        \* then the size is tested, then the pools are searched
        /\ IF layout'[1].size = 0
           THEN /\ pc'[1] = "done"
                /\ result'[1] = Ok(dangling(layout'[1]), 0)
           ELSE IF SmallestWithSize(pools, layout'[1].size) < N(pools)
           THEN /\ pc'[1] = "alloc_free_load"
                /\ pool_idx'[1] = SmallestWithSize(pools, layout'[1].size)
           ELSE pc'[1] = "done" /\ result'[1] = Err
        /\ pools' = pools /\ mem' = mem

\* C20: allocate performs its steps in the order trace event, zero-size
\* test, pool search: a request of size 0 writes the two words of its event
\* when the port is enabled and then returns the dangling pointer with
\* length 0 without touching a pool.
C20_AllocateOrder == [][C20_Step]_vars

\* C20 as stated: the zero-size test comes before the trace event, so that a
\* request of size 0 has written no word when it returns, even with the port
\* enabled.
C20_Original ==
    (Tracing /\ op[1] = "allocate" /\ call[1].kind = "none" /\ pc[1] = "done"
        /\ layout[1].size = 0) => port.words = << >>

\* C20 witness: an allocate of size 0 has returned on a heap whose port is
\* enabled, and the port has the two words of the event.
C20_Witness ==
    /\ Tracing /\ op[1] = "allocate" /\ call[1].kind = "none" /\ pc[1] = "done"
    /\ layout[1].size = 0 /\ result[1] = Ok(dangling(layout[1]), 0)
    /\ Keyed(port.words, port.key) = <<Word(161, 0, 0), Word(162, 0, 0)>>

(***************************************************************************)
(* Claims about the bump cursor.                                           *)
(***************************************************************************)
\* The values the cursor of pool i may take: base + k * block_size for
\* 0 <= k <= capacity.
CursorValues(i) ==
    {origin[i] + k * pools[i].block_size : k \in 0..pools[i].capacity}

\* The contexts whose alloc_uninit has won the cursor value v of pool i and
\* has not yet returned it.
Winners(i, v) ==
    {c \in Contexts : pc[c] = "alloc_uninit_sub" /\ pool_idx[c] = i /\ curr[c] = v}

C21_State ==
    \A i \in DOMAIN pools :
        /\ pools[i].uninit \in CursorValues(i)
        /\ origin[i] <= pools[i].uninit /\ pools[i].uninit <= pools[i].edge
        /\ pools[i].edge = origin[i] + pools[i].capacity * pools[i].block_size
        /\ \A v \in CursorValues(i) :
              /\ Cardinality(Winners(i, v)) <= 1
              /\ Winners(i, v) /= {} => (v < pools[i].uninit /\ v < pools[i].edge)

C21_Step ==
    \A i \in DOMAIN pools :
        /\ pools'[i].uninit >= pools[i].uninit
        \* the cursor leaves a value in the compare_exchange_weak of exactly
        \* one context, which has loaded that value
        /\ pools'[i].uninit /= pools[i].uninit =>
              /\ pools[i].uninit < pools[i].edge
              /\ pools'[i].uninit = pools[i].uninit + pools[i].block_size
              /\ Cardinality({c \in Contexts :
                     /\ pc[c] = "alloc_uninit_cas" /\ pc'[c] = "alloc_uninit_sub"
                     /\ pool_idx[c] = i /\ curr[c] = pools[i].uninit}) = 1
        \* and that context returns the value it has won
        /\ \A c \in Contexts :
              (pc[c] = "alloc_uninit_sub" /\ pool_idx[c] = i /\ pc'[c] = "done") =>
                  /\ result'[c].kind = "Some"
                  /\ result'[c].ptr = curr[c]
                  /\ curr[c] \in BlocksOf(i)

\* C21: under any interleaving the bump cursor of a pool is
\* base + k * block_size for some 0 <= k <= capacity, it never decreases and
\* never passes edge, and every value it leaves is handed out by alloc_uninit
\* to exactly one caller.
C21_BumpCursor == [](C21_State) /\ [][C21_Step]_vars

\* C21 witness: the two contexts have loaded the same cursor value, context 2
\* has won it, and context 1 is at its compare_exchange_weak.
C21_Witness ==
    /\ pc[1] = "alloc_uninit_cas" /\ pc[2] = "alloc_uninit_sub"
    /\ pool_idx[1] = pool_idx[2] /\ curr[1] = curr[2]
    /\ pools[pool_idx[1]].uninit = curr[1] + pools[pool_idx[1]].block_size

(***************************************************************************)
(* Claims about the free list.                                             *)
(***************************************************************************)
\* The blocks met from a along the link words, in order, up to null; the
\* walk stops after n blocks and at an address that is not a block.
RECURSIVE ChainSeq(_, _)
ChainSeq(a, n) ==
    IF a = NULL \/ n = 0 THEN << >>
    ELSE IF a \notin DOMAIN mem THEN <<a>>
    ELSE <<a>> \o ChainSeq(read(a), n - 1)

\* The free list of pool i as a sequence, head first.
FreeSeq(i) == ChainSeq(pools[i].free, pools[i].capacity + 1)

\* Context c is inside Pool::deallocate.
InDeallocate(c) == pc[c] \in {"dealloc_load", "dealloc_write", "dealloc_cas", "dealloc_add"}

C22_State ==
    \A i \in DOMAIN pools :
        \* null-terminated, pairwise distinct, freed blocks of the pool, the
        \* last freed first
        /\ FreeSeq(i) = stack[i]
        /\ Len(FreeSeq(i)) <= pools[i].capacity
        /\ \A j, k \in 1..Len(FreeSeq(i)) :
              /\ FreeSeq(i)[j] \in BlocksOf(i)
              /\ held[FreeSeq(i)[j]] = 0
              /\ j /= k => FreeSeq(i)[j] /= FreeSeq(i)[k]

C22_Step ==
    /\ InDeallocate(1) =>
          IF pc[1] = "dealloc_cas" /\ pc'[1] = "dealloc_add"
          THEN \* p becomes the head, and its first word already holds the
               \* head from before the call
               /\ pools'[pool_idx[1]].free = ptr[1]
               /\ read(ptr[1]) = pools[pool_idx[1]].free
               /\ mem'[ptr[1]] = WordBytes(pools[pool_idx[1]].free)
               /\ stack'[pool_idx[1]] = <<ptr[1]>> \o stack[pool_idx[1]]
          ELSE \* up to there the head is the one the call found
               \A i \in DOMAIN pools : pools'[i].free = pools[i].free
    /\ (pc[1] = "dealloc_add" /\ pc'[1] = "done") =>
          /\ pools'[pool_idx[1]].free = ptr[1]
          /\ mem'[ptr[1]] = WordBytes(IF Len(stack[pool_idx[1]]) > 1
                                       THEN stack[pool_idx[1]][2] ELSE NULL)

\* C22: with a single context, when Pool::deallocate(p) completes the free
\* head is p and the first word of p holds the head from before the call
\* (null when the list was empty); the free list is at all times a
\* null-terminated chain of pairwise distinct freed blocks, the last freed
\* first, and p becomes the head after its link word was written.
C22_FreeList == [](C22_State) /\ [][C22_Step]_vars

\* C22 witness: a deallocate has completed on a pool whose free list held
\* two blocks, and the list now holds three.
C22_Witness ==
    /\ pc[1] = "done" /\ op[1] \in {"Pool.deallocate", "deallocate"}
    /\ ptr[1] \in AllBlocks
    /\ Len(stack[pool_idx[1]]) = 3
    /\ pools[pool_idx[1]].free = ptr[1]
    /\ read(ptr[1]) = stack[pool_idx[1]][2]
    /\ read(stack[pool_idx[1]][3]) = NULL

(***************************************************************************)
(* Claims about allocate_zeroed.                                           *)
(***************************************************************************)
\* One context calling allocate, allocate_zeroed and deallocate and filling
\* the blocks it holds, on a pool of two blocks of two words.  No pool fits
\* a request of 17 bytes.
ZeroedConfigs == { << <<8, 16, 2>> >> }

ZeroedLayouts == {Layout(size, 1) : size \in {0, 3, 17}}

InitZeroed == InitHeap(ZeroedConfigs)

NextZeroed ==
    \/ \E lay \in ZeroedLayouts : AllocateCall(1, lay) /\ UNCHANGED calls
    \/ \E p \in DOMAIN held, lay \in ZeroedLayouts :
          DeallocateCall(1, p, lay) /\ UNCHANGED calls
    \/ \E lay \in ZeroedLayouts : AllocateZeroedCall(1, lay) /\ UNCHANGED calls
    \/ Step(1)
    \/ ResizeErr(1)
    \/ ZeroFill(1)
    \/ \E a \in DOMAIN held, seed \in FillSeeds : Fill(1, a, seed)

SpecZeroed == InitZeroed /\ [][NextZeroed]_vars

\* The allocate_zeroed of context c has returned.
ZeroedDone(c) == call[c].kind = "allocate_zeroed" /\ call[c].stage = "end"

C23_State ==
    ZeroedDone(1) =>
        /\ call[1].new_layout.size > 0 =>
              \/ result[1] = Err
              \/ /\ result[1].kind = "Ok"
                 /\ result[1].ptr \in AllBlocks
                 /\ result[1].len = pools[PoolOf(result[1].ptr)].block_size
                 /\ result[1].len >= call[1].new_layout.size
                 /\ Len(BlockBytes(result[1].ptr)) = result[1].len
                 /\ \A k \in 1..result[1].len : BlockBytes(result[1].ptr)[k] = 0
        /\ call[1].new_layout.size = 0 =>
              result[1] = Ok(dangling(call[1].new_layout), 0)

C23_Step ==
    call[1].kind = "allocate_zeroed" =>
        \* bytes are written in the zero-fill of a block only, and there in
        \* the block returned only
        /\ <<mem', rest'>> /= <<mem, rest>> =>
              /\ call[1].stage = "alloc" /\ call'[1].stage = "end"
              /\ result[1].kind = "Ok" /\ result[1].len > 0
              /\ \A a \in AllBlocks :
                    a /= result[1].ptr => (mem'[a] = mem[a] /\ rest'[a] = rest[a])
        \* a failed allocate fails the call
        /\ (call[1].stage = "alloc" /\ pc[1] = "done" /\ result[1] = Err) =>
              /\ call'[1].stage = "end" /\ result'[1] = Err
              /\ pools' = pools

\* C23: after a successful allocate_zeroed every byte of the block returned
\* is zero over the whole length reported (the block_size of the pool),
\* the first word of a block taken from the free list included; a request
\* of size 0 writes no byte; when allocate fails allocate_zeroed fails and
\* writes no byte.
C23_AllocateZeroed == [](C23_State) /\ [][C23_Step]_vars

\* C23 witness: an allocate_zeroed of 3 bytes has returned a block of the
\* pool of 16-byte blocks, all zero, and the free list of that pool still has
\* a block with the bytes its caller wrote: the block returned was the head
\* of the list, with the link to that block in its first word.
C23_Witness ==
    /\ ZeroedDone(1) /\ result[1].kind = "Ok"
    /\ call[1].new_layout.size = 3 /\ result[1].len = 16
    /\ BlockBytes(result[1].ptr) = Zeros(16)
    /\ pools[0].free /= NULL /\ pools[0].free /= result[1].ptr
    /\ rest[pools[0].free] /= Zeros(8)
    /\ ever_freed[0]

(***************************************************************************)
(* Claims about the range of remain.                                       *)
(***************************************************************************)
\* a < b for two usize values: they differ, and a is the smaller in the most
\* significant limb in which they differ.
LessUsize(a, b) ==
    \E k \in 1..UsizeLimbs :
        /\ a[k] < b[k]
        /\ \A j \in (k + 1)..UsizeLimbs : a[j] = b[j]

\* C24: in every state under any interleaving, the states in the middle of
\* a call included, the remain counter of a pool is within
\* 0 <= remain <= capacity.
C24_RemainRange ==
    \A i \in DOMAIN pools :
        /\ ~LessUsize(pools[i].remain, as_usize(0))
        /\ ~LessUsize(as_usize(pools[i].capacity), pools[i].remain)

====
